---- MODULE Spec2Model ----
(***************************************************************************)
(* A model of the IRMF slicer: irmf.Slicer (slice counts, the per-axis     *)
(* frame preparation and the per-axis sweeps) and binvox.Slice with its    *)
(* ZSliceProcessor.                                                        *)
(*                                                                         *)
(* Lengths.  The code computes in float32 millimetres.  The model keeps    *)
(* every length as an integer number of half millimetres: resolutions are  *)
(* whole millimetres (an even number of half millimetres), so that         *)
(* voxelRadius = 0.5*delta, minVal = Min + voxelRadius and                 *)
(* minVal + n*delta are exact both here and in float32, and                *)
(* int(0.5 + extent/delta) is decided by exact rational arithmetic (for    *)
(* the small operands of the model the float32 quotient is never within    *)
(* one ulp of a rounding boundary unless it sits exactly on it).           *)
(***************************************************************************)
EXTENDS Integers, Sequences, FiniteSets

\* ------------------------------------------------------------------ bounds

\* Largest box extent on an axis, in half millimetres.
MaxExtent == 6

\* Largest resolution handed to irmf.Init in SpecGeom, in millimetres.
MaxRes == 3

\* Largest number of materials of a model.
MaxMaterials == 2

\* Largest number of backends a session of SpecLife constructs.
MaxBackends == 3

\* ------------------------------------------------------------ input values

Axes == {"X", "Y", "Z"}

MinToMax == 0

MaxToMin == 1

Orders == {MinToMax, MaxToMin}

\* Index of an axis into IRMF.Min / IRMF.Max (1-based here, 0-based in Go).
AxisIndex(axis) == IF axis = "X" THEN 1 ELSE IF axis = "Y" THEN 2 ELSE 3

\* Resolutions in microns that irmf.Init is called with: 1 mm and 2 mm in
\* the sessions of Spec, every whole millimetre up to MaxRes in SpecGeom.
Resolutions == {1000, 2000}

GeomResolutions == {1000 * k : k \in 1..MaxRes}

\* The resolutions of SpecConfig: 1 mm and minus 1 mm.  (Zero is left out:
\* the quotient extent/delta is then +Inf, and what its conversion to int
\* gives depends on the platform.)
ConfigResolutions == {-1000, 1000}

\* Material names, as sequences of characters.
NameTestMaterial == <<"t", "e", "s", "t", " ", "m", "a", "t", "e", "r", "i", "a", "l">>

NameTwoSpaces == <<"a", " ", "b", " ", "c">>

NamePlain == <<"P", "L", "A", "_", "1">>

MaterialNames == <<NameTwoSpaces, NamePlain, NameTestMaterial>>

\* The material list of a model with k materials.
MaterialList(k) == [i \in 1..k |-> MaterialNames[((i - 1) % Len(MaterialNames)) + 1]]

\* Base file names handed to binvox.Slice.
BaseNames == { <<"t", "e", "s", "t", "-", "s", "o", "l", "i", "d">>, <<"o", "u", "t">> }

NoModel == [nil |-> TRUE]

\* A model as the loader returns it: bounding box (lower corner and extents,
\* in half millimetres), material list, language.
Model(mn, ex, ms) ==
    [Min |-> mn,
     Max |-> <<mn[1] + ex[1], mn[2] + ex[2], mn[3] + ex[3]>>,
     Materials |-> ms,
     Language |-> "glsl"]

\* A model with a shading-language tag.
ModelIn(language, mn, ex, ms) == [Model(mn, ex, ms) EXCEPT !.Language = language]

\* The shading-language tags of the models the loader returns.
Languages == {"glsl", "", "wgsl"}

\* The models of the sessions of Spec: the cubes of every extent with the
\* one material "test material" (among them, at half-millimetre extent 6,
\* the cube (0,0,0)..(3,3,3) mm), and two boxes with unequal sides and a
\* lower corner off the origin, with every material count.
Models ==
    { Model(<<0, 0, 0>>, <<e, e, e>>, <<NameTestMaterial>>) : e \in 1..MaxExtent }
        \cup { Model(<<-2, -1, -3>>, ex, MaterialList(k)) :
                 ex \in { <<MaxExtent, 4, 3>>, <<4, MaxExtent, 2>> }, k \in 1..MaxMaterials }

\* The models of SpecGeom: every box with extents in 1..MaxExtent, at two
\* lower corners.
GeomModels ==
    { Model(mn, <<ex, ey, ez>>, MaterialList(1)) :
        mn \in { <<0, 0, 0>>, <<-2, -1, -3>> },
        ex \in 1..MaxExtent, ey \in 1..MaxExtent, ez \in 1..MaxExtent }

\* The material counts of the models of SpecLife: the last count of each
\* range of the channel selection, and one past the last range.
LifeMaterialCounts == {4, 9, 16, 17}

\* The models of SpecLife: the 1 mm cube (one slice on every axis), in every language
\* and with every material count of LifeMaterialCounts.
LifeModels ==
    { ModelIn(language, <<0, 0, 0>>, <<2, 2, 2>>, MaterialList(k)) :
        language \in Languages, k \in LifeMaterialCounts }

\* The loader failing on a shader source.
BadSource == [bad |-> TRUE]

\* ---------------------------------------------------------------- variables

VARIABLES
    irmf,       \* Slicer.irmf: NoModel or the loaded model
    deltaX,     \* Slicer.deltaX, half millimetres
    deltaY,     \* Slicer.deltaY
    deltaZ,     \* Slicer.deltaZ
    renderer,   \* Slicer.renderer and the state of the backend it points to
    retired,    \* the backends the slicer held before and dropped
    pc,         \* position of the running operation
    sw,         \* locals of the running Render{X,Y,Z}Slices sweep
    calls,      \* backend Render calls and consumer calls of the current sweep
    bs,         \* locals of the running binvox.Slice
    b,          \* the binvox.BinVOX of the material binvox.Slice works on
    seen,       \* the rasters client.ProcessZSlice was handed for that material
    files,      \* artifacts written by the current binvox.Slice
    ret,        \* the last operation that returned, and whether with an error
    geom        \* SpecGeom only: the slice counts, frame sizes and depths last computed

vars == <<irmf, deltaX, deltaY, deltaZ, renderer, retired, pc, sw, calls, bs, b, seen, files, ret, geom>>

\* ------------------------------------------------------------ pure helpers

Abs(n) == IF n < 0 THEN -n ELSE n

\* Go's float-to-int conversion of num/den (den # 0): truncation toward zero.
Trunc(num, den) ==
    IF (num >= 0) = (den > 0)
    THEN Abs(num) \div Abs(den)
    ELSE -(Abs(num) \div Abs(den))

\* Go's n % 2: the remainder has the sign of n.
Rem2(n) == IF n >= 0 THEN n % 2 ELSE -((-n) % 2)

\* int(0.5 + extent/delta)
IntHalfUp(extent, delta) == Trunc(2 * extent + delta, 2 * delta)

Delta(axis) == IF axis = "X" THEN deltaX ELSE IF axis = "Y" THEN deltaY ELSE deltaZ

Extent(axis) == irmf.Max[AxisIndex(axis)] - irmf.Min[AxisIndex(axis)]

\* Slicer.NumMaterials
NumMaterials == IF irmf = NoModel THEN 0 ELSE Len(irmf.Materials)

\* Slicer.MaterialName (1-based)
MaterialName(n) ==
    IF irmf = NoModel \/ n > Len(irmf.Materials) THEN <<>> ELSE irmf.Materials[n]

\* Slicer.MBB
MBB == IF irmf = NoModel THEN [min |-> <<0, 0, 0>>, max |-> <<0, 0, 0>>]
       ELSE [min |-> irmf.Min, max |-> irmf.Max]

\* Slicer.NumXSlices
NumXSlices ==
    LET n == IntHalfUp(Extent("X"), deltaX)
    IN  IF Rem2(n) = 1 THEN n + 1 ELSE n

\* Mutant of NumYSlices: the Y count is adjusted on its own parity.
NumYSlices_OwnParity ==
    LET ny == IntHalfUp(Extent("Y"), deltaY)
    IN  IF Rem2(ny) = 1 THEN ny + 1 ELSE ny

\* Slicer.NumYSlices
NumYSlices ==
    LET nx == IntHalfUp(Extent("X"), deltaX)
        ny == IntHalfUp(Extent("Y"), deltaY)
    IN  IF Rem2(nx) = 1 THEN ny + 1 ELSE ny

\* Slicer.NumZSlices
NumZSlices == IntHalfUp(Extent("Z"), deltaZ)

\* numSlices of Render{X,Y,Z}Slices (no parity adjustment on any axis)
SweepNumSlices(axis) == IntHalfUp(Extent(axis), Delta(axis))

\* Mutant of VoxelRadius: the whole pitch.
VoxelRadius_Full(axis) == Delta(axis)

\* voxelRadius of Render{X,Y,Z}Slices: 0.5 * delta
VoxelRadius(axis) == Delta(axis) \div 2

\* minVal of Render{X,Y,Z}Slices
MinVal(axis) == irmf.Min[AxisIndex(axis)] + VoxelRadius(axis)

\* Mutant of DepthFunc: MaxToMin counts down from numSlices, not numSlices-1.
DepthFunc_OffByOne(axis, order, numSlices, n) ==
    IF order = MinToMax
    THEN MinVal(axis) + n * Delta(axis)
    ELSE MinVal(axis) + (numSlices - n) * Delta(axis)

\* xFunc / yFunc / zFunc: the depth of slice n
DepthFunc(axis, order, numSlices, n) ==
    IF order = MinToMax
    THEN MinVal(axis) + n * Delta(axis)
    ELSE MinVal(axis) + (numSlices - n - 1) * Delta(axis)

\* The in-plane axes (left..right, bottom..top) of PrepareRender{X,Y,Z}.
PlaneAxes(axis) ==
    IF axis = "X" THEN <<"Y", "Z">> ELSE IF axis = "Y" THEN <<"X", "Z">> ELSE <<"X", "Y">>

\* newWidth, newHeight of PrepareRender{X,Y,Z} after the aspect-ratio pass.
\* aspectRatio = (W*dh)/(H*dw); aspectRatio*newHeight < newWidth is decided
\* on the cross-multiplied integers (the inequality turns when H*dw < 0).
FrameSize(axis) ==
    LET wa == PlaneAxes(axis)[1]
        ha == PlaneAxes(axis)[2]
        W == Extent(wa)
        H == Extent(ha)
        dw == Delta(wa)
        dh == Delta(ha)
        newWidth == IntHalfUp(W, dw)
        newHeight == IntHalfUp(H, dh)
    IN  IF (IF H * dw > 0
            THEN W * dh * newHeight < newWidth * H * dw
            ELSE W * dh * newHeight > newWidth * H * dw)
        THEN <<newWidth, Trunc(2 * newWidth * H * dw + W * dh, 2 * W * dh)>>
        ELSE <<newWidth, newHeight>>

\* Mutant of AlignSize: only the width is made even.
AlignSize_WidthOnly(size) ==
    IF Rem2(size[1]) = 1 THEN <<size[1] + 1, size[2]>> ELSE size

\* The parity pass of prepareRender on (newWidth, newHeight).
AlignSize(size) ==
    IF Rem2(size[1]) = 1 THEN <<size[1] + 1, size[2] + 1>> ELSE size

\* --------------------------------------------------------------- rendering

NoRenderer == [kind |-> "none"]

\* A freshly constructed &OpenGLRenderer{} / &WebGPURenderer{}, the id-th
\* backend of the session.  res is what the backend holds of the window
\* system or the GPU: "none" (window == nil, instance == nil), "live", or
\* "released" (WebGPU after Close: released, the pointers still set).  axis
\* and irmf are the frame and the model its pipeline was last prepared for,
\* footer the number of channels of the evaluator of that pipeline.
NewRenderer(kind, id) ==
    [kind |-> kind, id |-> id, res |-> "none", width |-> 0, height |-> 0,
     axis |-> "none", irmf |-> NoModel, footer |-> 0]

\* The pixels of a w-by-h raster (image.Rect(0, 0, w, h)).
Pixels(w, h) == (0..(w - 1)) \X (0..(h - 1))

\* The rasters a backend Render can return for a w-by-h frame, each given by
\* the set of its pixels whose red channel is non-zero: all of them, none,
\* the column u = 0.
Rasters(w, h) ==
    { [w |-> w, h |-> h, red |-> r] :
        r \in { Pixels(w, h), {}, {p \in Pixels(w, h) : p[1] = 0} } }

NoImage == [w |-> 0, h |-> 0, red |-> {}]

\* What Render of the held backend can return: rasters of the size its Init
\* was last given (Rect(0, 0, r.width, r.height)).
RenderedImages ==
    IF renderer = NoRenderer THEN {NoImage} ELSE Rasters(renderer.width, renderer.height)

\* genFooter(numMaterials, vec3Str): the number of channels of the
\* evaluator the footer calls (mainModel4, mainModel9, mainModel16).
GenFooter(numMaterials) ==
    IF numMaterials \in 5..9 THEN 9
    ELSE IF numMaterials \in 10..16 THEN 16
    ELSE 4

\* genWGSLFooter(numMaterials, vec3Str)
GenWGSLFooter(numMaterials) ==
    IF numMaterials \in 5..9 THEN 9
    ELSE IF numMaterials \in 10..16 THEN 16
    ELSE 4

\* Mutant of RendererClose: nothing is released.
RendererClose_Noop(r) == r

\* OpenGLRenderer.Close / WebGPURenderer.Close.  OpenGL terminates GLFW and
\* sets window to nil; WebGPU releases what it holds and keeps the pointers.
RendererClose(r) ==
    IF r.kind = "OpenGL"
    THEN IF r.res = "live" THEN [r EXCEPT !.res = "none", !.axis = "none"] ELSE r
    ELSE IF r.res = "none" THEN r ELSE [r EXCEPT !.res = "released"]

\* What the window system and the GPU do to a backend's Init and Prepare:
\* "ok"; "initErr", acquiring fails with nothing held (glfw.Init,
\* CreateWindow, CreateInstance); "initErrOpen", acquiring fails with the
\* window or the instance already set (gl.Init, RequestAdapter,
\* RequestDevice); "prepareErr", Prepare fails.
PrepareOutcomes == {"ok", "initErr", "initErrOpen", "prepareErr"}

\* OpenGLRenderer.Init / WebGPURenderer.Init(width, height, view).  OpenGL
\* drops a window of another size; both store width and height, then acquire
\* only when they hold nothing (window == nil, instance == nil) and return
\* nil otherwise.
RendererInit(r, width, height, outcome) ==
    LET stale == r.kind = "OpenGL" /\ r.res = "live"
                    /\ (r.width # width \/ r.height # height)
        r0 == [r EXCEPT !.width = width, !.height = height,
                        !.res = IF stale THEN "none" ELSE @,
                        !.axis = IF stale THEN "none" ELSE @]
    IN  IF r0.res # "none" THEN [renderer |-> r0, err |-> FALSE]
        ELSE IF outcome = "initErr" THEN [renderer |-> r0, err |-> TRUE]
        ELSE IF outcome = "initErrOpen"
        THEN [renderer |-> [r0 EXCEPT !.res = "live"], err |-> TRUE]
        ELSE [renderer |-> [r0 EXCEPT !.res = "live"], err |-> FALSE]

\* OpenGLRenderer.Prepare / WebGPURenderer.Prepare(irmf, vec3Str, ...): the
\* shader is built with the footer for len(irmf.Materials) and compiled; a
\* failure leaves the backend prepared for no axis.
RendererPrepare(r, model, axis, outcome) ==
    LET footer == IF r.kind = "OpenGL"
                  THEN GenFooter(Len(model.Materials))
                  ELSE GenWGSLFooter(Len(model.Materials))
        r0 == [r EXCEPT !.irmf = model, !.footer = footer]
    IN  IF outcome = "prepareErr"
        THEN [renderer |-> [r0 EXCEPT !.axis = "none"], err |-> TRUE]
        ELSE [renderer |-> [r0 EXCEPT !.axis = axis], err |-> FALSE]

\* Mutant of PrepareRender: the backend's Init is not called.
PrepareRender_SkipInit(axis, outcome) ==
    LET p == RendererPrepare(renderer, irmf, axis, outcome)
    IN  IF renderer = NoRenderer
        THEN [renderer |-> renderer, err |-> TRUE, init |-> FALSE, prepare |-> FALSE]
        ELSE [renderer |-> p.renderer, err |-> p.err, init |-> FALSE, prepare |-> TRUE]

\* Slicer.prepareRender after PrepareRender{X,Y,Z}: the renderer it leaves,
\* whether it returns an error, and whether it called the backend's Init
\* and Prepare.
PrepareRender(axis, outcome) ==
    LET size == AlignSize(FrameSize(axis))
        i == RendererInit(renderer, size[1], size[2], outcome)
        p == RendererPrepare(i.renderer, irmf, axis, outcome)
    IN  IF renderer = NoRenderer
        THEN [renderer |-> renderer, err |-> TRUE, init |-> FALSE, prepare |-> FALSE]
        ELSE IF i.err
        THEN [renderer |-> i.renderer, err |-> TRUE, init |-> TRUE, prepare |-> FALSE]
        ELSE [renderer |-> p.renderer, err |-> p.err, init |-> TRUE, prepare |-> TRUE]

\* ------------------------------------------------------------------ binvox

NoBinVOX == [NX |-> 0, NY |-> 0, NZ |-> 0, WhiteVoxels |-> {}]

\* binvox.New(nx, ny, nz, ...)
New(nx, ny, nz) == [NX |-> nx, NY |-> ny, NZ |-> nz, WhiteVoxels |-> {}]

\* Mutant of ProcessZSlice: the pixel coordinates are swapped.
ProcessZSlice_Swapped(bv, sliceNum, img) ==
    [NX |-> img.w,
     NY |-> img.h,
     NZ |-> bv.NZ,
     WhiteVoxels |-> bv.WhiteVoxels \cup { <<p[2], p[1], sliceNum>> : p \in img.red }]

\* Mutant of ProcessZSlice: each slice replaces the cells recorded so far.
ProcessZSlice_Overwrite(bv, sliceNum, img) ==
    [NX |-> img.w,
     NY |-> img.h,
     NZ |-> bv.NZ,
     WhiteVoxels |-> { <<p[1], p[2], sliceNum>> : p \in img.red }]

\* Mutant of ProcessZSlice: NX and NY are not taken from the raster.
ProcessZSlice_KeepDims(bv, sliceNum, img) ==
    [NX |-> bv.NX,
     NY |-> bv.NY,
     NZ |-> bv.NZ,
     WhiteVoxels |-> bv.WhiteVoxels \cup { <<p[1], p[2], sliceNum>> : p \in img.red }]

\* client.ProcessZSlice: the BinVOX after the call (it always returns nil).
ProcessZSlice(bv, sliceNum, img) ==
    [NX |-> img.w,
     NY |-> img.h,
     NZ |-> bv.NZ,
     WhiteVoxels |-> bv.WhiteVoxels \cup { <<p[1], p[2], sliceNum>> : p \in img.red }]

\* The decimal digits of a non-negative integer, most significant first.
RECURSIVE Digits(_)
Digits(n) ==
    IF n < 10
    THEN << <<"0", "1", "2", "3", "4", "5", "6", "7", "8", "9">>[n + 1] >>
    ELSE Digits(n \div 10) \o Digits(n % 10)

\* fmt's %02d of a non-negative integer
Pad02(n) == IF n < 10 THEN <<"0">> \o Digits(n) ELSE Digits(n)

\* Mutant of ReplaceAll: only the first space is replaced.
ReplaceAll_First(s) ==
    [i \in 1..Len(s) |->
        IF s[i] = " " /\ \A j \in 1..(i - 1) : s[j] # " " THEN "-" ELSE s[i]]

\* strings.ReplaceAll(s, " ", "-")
ReplaceAll(s) == [i \in 1..Len(s) |-> IF s[i] = " " THEN "-" ELSE s[i]]

\* The file name binvox.Slice builds for a material.
Filename(base, materialNum) ==
    base \o <<"-", "m", "a", "t">> \o Pad02(materialNum) \o <<"-">>
         \o ReplaceAll(MaterialName(materialNum))
         \o <<".", "b", "i", "n", "v", "o", "x">>

\* ----------------------------------------------------------------- actions

NoSweep ==
    [axis |-> "none", order |-> MinToMax, materialNum |-> 0, numSlices |-> 0,
     n |-> 0, depth |-> 0, img |-> NoImage, caller |-> "none", err |-> "none"]

NoSlice == [base |-> <<>>, materialNum |-> 0, filename |-> <<>>, events |-> <<>>]

\* An entry of the record binvox.Slice keeps of what it has done: a call
\* of PrepareRenderZ (with whether it reached the backend's Init and
\* Prepare), of RenderZSlices (with the number of slices it completed) or of
\* BinVOX.Write, for a material, and whether it returned an error.
SliceEvent(op, materialNum, err, init, prepare, slices) ==
    [op |-> op, materialNum |-> materialNum, err |-> err,
     init |-> init, prepare |-> prepare, slices |-> slices]

NoRet == [op |-> "none", err |-> FALSE]

NoGeom == [op |-> "none"]

\* irmf.Init(view, umXRes, umYRes, umZRes): millimetres = microns / 1000.
InitWith(resolutions) ==
    /\ \E umXRes \in resolutions, umYRes \in resolutions, umZRes \in resolutions :
          /\ deltaX = umXRes \div 500
          /\ deltaY = umYRes \div 500
          /\ deltaZ = umZRes \div 500
    /\ irmf = NoModel
    /\ renderer = NoRenderer
    /\ retired = {}
    /\ pc = "idle"
    /\ sw = NoSweep
    /\ calls = <<>>
    /\ bs = NoSlice
    /\ b = NoBinVOX
    /\ seen = <<>>
    /\ files = {}
    /\ ret = NoRet
    /\ geom = NoGeom

Init == InitWith(Resolutions)

InitGeom == InitWith(GeomResolutions)

\* The number of the next backend the session constructs.
NextId == Cardinality(retired) + (IF renderer = NoRenderer THEN 1 ELSE 2)

\* Mutant of SelectRenderer: a held backend is kept whatever its kind.
SelectRenderer_KeepHeld(language) ==
    IF renderer # NoRenderer THEN renderer
    ELSE IF language = "wgsl" THEN NewRenderer("WebGPU", NextId)
    ELSE NewRenderer("OpenGL", NextId)

\* The renderer Slicer.NewModel holds after loading a model of a language.
SelectRenderer(language) ==
    IF language \in {"glsl", ""}
    THEN IF renderer.kind = "OpenGL" THEN renderer ELSE NewRenderer("OpenGL", NextId)
    ELSE IF language = "wgsl"
    THEN IF renderer.kind = "WebGPU" THEN renderer ELSE NewRenderer("WebGPU", NextId)
    ELSE renderer

\* What the session remembers of a backend the slicer no longer holds.
Dropped(r) == [id |-> r.id, kind |-> r.kind, res |-> r.res]

\* The backends dropped so far once Slicer.NewModel has loaded a model of a
\* language: a held backend of another kind is closed, then dropped.
Retire(language) ==
    IF renderer # NoRenderer /\ SelectRenderer(language) # renderer
    THEN retired \cup {Dropped(RendererClose(renderer))}
    ELSE retired

\* Mutant of NewModel: s.irmf is assigned before the error is tested, so a
\* failed load leaves the nil model the loader returned.
NewModel_AssignFirst(src) ==
    /\ pc = "idle"
    /\ IF src = BadSource
       THEN /\ irmf' = NoModel
            /\ ret' = [op |-> "NewModel", err |-> TRUE]
            /\ UNCHANGED <<renderer, retired>>
       ELSE /\ irmf' = src
            /\ renderer' = SelectRenderer(src.Language)
            /\ retired' = Retire(src.Language)
            /\ ret' = [op |-> "NewModel", err |-> FALSE]
    /\ sw' = NoSweep
    /\ calls' = <<>>
    /\ b' = NoBinVOX
    /\ seen' = <<>>
    /\ files' = {}
    /\ bs' = NoSlice
    /\ UNCHANGED <<deltaX, deltaY, deltaZ, pc, geom>>

\* Slicer.NewModel(shaderSrc)
NewModel(src) ==
    /\ pc = "idle"
    /\ IF src = BadSource
       THEN /\ ret' = [op |-> "NewModel", err |-> TRUE]
            /\ UNCHANGED <<irmf, renderer, retired>>
       ELSE /\ irmf' = src
            /\ renderer' = SelectRenderer(src.Language)
            /\ retired' = Retire(src.Language)
            /\ ret' = [op |-> "NewModel", err |-> FALSE]
    /\ sw' = NoSweep
    /\ calls' = <<>>
    /\ b' = NoBinVOX
    /\ seen' = <<>>
    /\ files' = {}
    /\ bs' = NoSlice
    /\ UNCHANGED <<deltaX, deltaY, deltaZ, pc, geom>>

\* Slicer.Close()
Close ==
    /\ pc = "idle"
    /\ renderer' = IF renderer = NoRenderer THEN renderer ELSE RendererClose(renderer)
    /\ ret' = [op |-> "Close", err |-> FALSE]
    /\ sw' = NoSweep
    /\ calls' = <<>>
    /\ b' = NoBinVOX
    /\ seen' = <<>>
    /\ files' = {}
    /\ bs' = NoSlice
    /\ UNCHANGED <<irmf, deltaX, deltaY, deltaZ, retired, pc, geom>>

\* Slicer.PrepareRenderX / PrepareRenderY / PrepareRenderZ called by a client.
PrepareRenderAxis(axis, outcome) ==
    /\ pc = "idle"
    /\ irmf # NoModel
    /\ LET r == PrepareRender(axis, outcome)
       IN  /\ renderer' = r.renderer
           /\ ret' = [op |-> "PrepareRender", err |-> r.err]
    /\ sw' = NoSweep
    /\ calls' = <<>>
    /\ b' = NoBinVOX
    /\ seen' = <<>>
    /\ files' = {}
    /\ bs' = NoSlice
    /\ UNCHANGED <<irmf, deltaX, deltaY, deltaZ, retired, pc, geom>>

\* Mutant of LoopTest: the loop runs once more.
LoopTest_Inclusive(n, numSlices) == n <= numSlices

\* The loop test of Render{X,Y,Z}Slices: n < numSlices
LoopTest(n, numSlices) == n < numSlices

\* Mutant of RenderErr: the error of renderSlice is dropped.
RenderErr_Ignored(good) == "none"

\* What the sweep does with renderSlice's result: "none" to go on to the
\* consumer, "render" to return the wrapped error.
RenderErr(good) == IF good THEN "none" ELSE "render"

\* Mutant of ProcessErr: the consumer's error is dropped.
ProcessErr_Ignored(good, n, numSlices) ==
    IF LoopTest(n + 1, numSlices) THEN "none" ELSE "nil"

\* What the sweep does with the consumer's result: "process" to return the
\* wrapped error, otherwise n++ and the loop test ("nil": return nil).
ProcessErr(good, n, numSlices) ==
    IF ~good THEN "process"
    ELSE IF LoopTest(n + 1, numSlices) THEN "none"
    ELSE "nil"

\* Entry of Render{X,Y,Z}Slices up to the loop head: the sweep's locals.
EnterSweep(axis, materialNum, order, caller) ==
    [axis |-> axis, order |-> order, materialNum |-> materialNum,
     numSlices |-> SweepNumSlices(axis), n |-> 0, depth |-> 0, img |-> NoImage,
     caller |-> caller,
     err |-> IF LoopTest(0, SweepNumSlices(axis)) THEN "none" ELSE "nil"]

\* Where control goes when a sweep started by caller is at its loop head or
\* has returned.
SweepPc(s) ==
    IF s.err = "none" THEN "render"
    ELSE IF s.caller = "binvox" THEN "sliceAfterSweep" ELSE "idle"

SweepRet(s) ==
    IF s.err # "none" /\ s.caller # "binvox"
    THEN [op |-> "RenderSlices", err |-> s.err # "nil"]
    ELSE NoRet

\* Slicer.RenderXSlices / RenderYSlices / RenderZSlices called by a client
\* with its own slice processor.
RenderSlices(axis, materialNum, order) ==
    /\ pc = "idle"
    /\ irmf # NoModel
    /\ LET s == EnterSweep(axis, materialNum, order, "client")
       IN  /\ sw' = s
           /\ pc' = SweepPc(s)
           /\ ret' = SweepRet(s)
    /\ calls' = <<>>
    /\ b' = NoBinVOX
    /\ seen' = <<>>
    /\ files' = {}
    /\ bs' = NoSlice
    /\ UNCHANGED <<irmf, deltaX, deltaY, deltaZ, renderer, retired, geom>>

\* One pass of the sweep loop up to the consumer call: the depth of slice n
\* and Slicer.renderSlice.  ok is whether the backend's Render succeeds and
\* img the raster it then returns.
RenderSlice(ok, img) ==
    /\ pc = "render"
    /\ LET depth == DepthFunc(sw.axis, sw.order, sw.numSlices, sw.n)
           good == renderer # NoRenderer /\ ok
           s == [sw EXCEPT !.depth = depth,
                           !.img = IF good THEN img ELSE NoImage,
                           !.err = RenderErr(good)]
       IN  /\ sw' = s
           /\ pc' = IF s.err = "none" THEN "process" ELSE SweepPc(s)
           /\ ret' = SweepRet(s)
           /\ calls' = IF renderer = NoRenderer
                       THEN calls
                       ELSE Append(calls, [op |-> "Render", depth |-> depth,
                                           materialNum |-> sw.materialNum, ok |-> ok])
    /\ UNCHANGED <<irmf, deltaX, deltaY, deltaZ, renderer, retired, bs, b, seen, files, geom>>

\* The consumer call of the sweep loop and the loop's n++ and test.  ok is
\* whether a client's slice processor returns nil; client.ProcessZSlice of
\* binvox always does.
ProcessSlice(ok) ==
    /\ pc = "process"
    /\ LET good == sw.caller = "binvox" \/ ok
           s == [sw EXCEPT !.n = IF good THEN sw.n + 1 ELSE sw.n,
                           !.img = NoImage,
                           !.err = ProcessErr(good, sw.n, sw.numSlices)]
       IN  /\ sw' = s
           /\ pc' = SweepPc(s)
           /\ ret' = SweepRet(s)
           /\ calls' = Append(calls, [op |-> "Process", n |-> sw.n, depth |-> sw.depth,
                                      voxelRadius |-> VoxelRadius(sw.axis),
                                      w |-> sw.img.w, h |-> sw.img.h, ok |-> good])
           /\ b' = IF sw.caller = "binvox" THEN ProcessZSlice(b, sw.n, sw.img) ELSE b
           /\ seen' = IF sw.caller = "binvox" THEN Append(seen, sw.img) ELSE seen
    /\ UNCHANGED <<irmf, deltaX, deltaY, deltaZ, renderer, retired, bs, files, geom>>

\* binvox.Slice(baseFilename, slicer): the call, up to the loop head.
Slice(base) ==
    /\ pc = "idle"
    /\ bs' = [base |-> base, materialNum |-> 1, filename |-> <<>>, events |-> <<>>]
    /\ pc' = "sliceLoop"
    /\ sw' = NoSweep
    /\ calls' = <<>>
    /\ b' = NoBinVOX
    /\ seen' = <<>>
    /\ files' = {}
    /\ ret' = NoRet
    /\ UNCHANGED <<irmf, deltaX, deltaY, deltaZ, renderer, retired, geom>>

\* binvox.Slice at its loop head: return nil after the last material, or
\* build the file name and the BinVOX, call PrepareRenderZ and enter
\* RenderZSlices(materialNum, c, irmf.MinToMax).
SliceMaterial(outcome) ==
    /\ pc = "sliceLoop"
    /\ IF bs.materialNum > NumMaterials
       THEN /\ pc' = "idle"
            /\ ret' = [op |-> "Slice", err |-> FALSE]
            /\ UNCHANGED <<renderer, sw, calls, bs, b, seen>>
       ELSE LET r == PrepareRender("Z", outcome)
                s == EnterSweep("Z", bs.materialNum, MinToMax, "binvox")
            IN  /\ bs' = [bs EXCEPT !.filename = Filename(bs.base, bs.materialNum),
                                     !.events = Append(@, SliceEvent("PrepareRenderZ",
                                                    bs.materialNum, r.err, r.init, r.prepare, 0))]
                /\ b' = New(NumXSlices, NumYSlices, NumZSlices)
                /\ seen' = <<>>
                /\ renderer' = r.renderer
                /\ calls' = <<>>
                /\ IF r.err
                   THEN /\ pc' = "idle"
                        /\ ret' = [op |-> "Slice", err |-> TRUE]
                        /\ sw' = NoSweep
                   ELSE /\ sw' = s
                        /\ pc' = SweepPc(s)
                        /\ ret' = NoRet
    /\ UNCHANGED <<irmf, deltaX, deltaY, deltaZ, retired, files, geom>>

\* Mutant of SweepFailed: the error of RenderZSlices is dropped.
SweepFailed_Ignored(s) == FALSE

\* The test binvox.Slice makes on what RenderZSlices returned.
SweepFailed(s) == s.err # "nil"

\* binvox.Slice after RenderZSlices returned: return its error, or write the
\* artifact (wrote is whether BinVOX.Write succeeds) and go on with the next
\* material.
SliceWrite(wrote) ==
    /\ pc = "sliceAfterSweep"
    /\ LET swept == SliceEvent("RenderZSlices", bs.materialNum, sw.err # "nil",
                               FALSE, FALSE, sw.n)
           written == SliceEvent("Write", bs.materialNum, ~wrote, FALSE, FALSE, 0)
       IN  IF SweepFailed(sw)
           THEN /\ pc' = "idle"
                /\ ret' = [op |-> "Slice", err |-> TRUE]
                /\ bs' = [bs EXCEPT !.events = Append(@, swept)]
                /\ UNCHANGED files
           ELSE IF ~wrote
           THEN /\ pc' = "idle"
                /\ ret' = [op |-> "Slice", err |-> TRUE]
                /\ bs' = [bs EXCEPT !.events = @ \o <<swept, written>>]
                /\ UNCHANGED files
           ELSE /\ files' = files \cup { [name |-> bs.filename, materialNum |-> bs.materialNum,
                                          NX |-> b.NX, NY |-> b.NY, NZ |-> b.NZ,
                                          WhiteVoxels |-> b.WhiteVoxels, rasters |-> seen] }
                /\ bs' = [bs EXCEPT !.materialNum = @ + 1,
                                    !.events = @ \o <<swept, written>>]
                /\ pc' = "sliceLoop"
                /\ ret' = NoRet
    /\ UNCHANGED <<irmf, deltaX, deltaY, deltaZ, renderer, retired, sw, calls, b, seen, geom>>

Next ==
    \/ \E src \in Models \cup {BadSource} : irmf = NoModel /\ NewModel(src)
    \/ \E axis \in Axes, outcome \in PrepareOutcomes : PrepareRenderAxis(axis, outcome)
    \/ \E axis \in Axes, materialNum \in 1..NumMaterials, order \in Orders :
          RenderSlices(axis, materialNum, order)
    \/ \E ok \in BOOLEAN : \E img \in RenderedImages :
          RenderSlice(ok, img)
    \/ \E ok \in BOOLEAN : ProcessSlice(ok)
    \/ \E base \in BaseNames : Slice(base)
    \/ \E outcome \in PrepareOutcomes : SliceMaterial(outcome)
    \/ \E wrote \in BOOLEAN : SliceWrite(wrote)

Spec == Init /\ [][Next]_vars

\* ------------------------------------------- the life cycle of the backend

InitLife == InitWith({1000})

\* A session that loads one model after another, prepares frames, sweeps the
\* first material and closes the slicer at any time; it constructs at most
\* MaxBackends backends.
NextLife ==
    \/ \E src \in LifeModels \cup {BadSource} :
          /\ (IF src = BadSource THEN TRUE
              ELSE IF SelectRenderer(src.Language) = renderer THEN TRUE
              ELSE NextId <= MaxBackends)
          /\ NewModel(src)
    \/ Close
    \/ \E axis \in Axes, outcome \in PrepareOutcomes : PrepareRenderAxis(axis, outcome)
    \/ \E axis \in Axes : RenderSlices(axis, 1, MinToMax)
    \/ \E ok \in BOOLEAN : \E img \in RenderedImages :
          RenderSlice(ok, img)
    \/ \E ok \in BOOLEAN : ProcessSlice(ok)

SpecLife == InitLife /\ [][NextLife]_vars

\* ------------------------------------------------- the geometry on its own

\* The depths a sweep that meets no error computes at slices n, n+1, ...
RECURSIVE SweepDepths(_, _, _, _)
SweepDepths(axis, order, numSlices, n) ==
    IF n >= numSlices
    THEN <<>>
    ELSE <<DepthFunc(axis, order, numSlices, n)>> \o SweepDepths(axis, order, numSlices, n + 1)

\* NumXSlices(), NumYSlices() and NumZSlices() of the loaded model.
MeasureCounts ==
    /\ pc = "idle"
    /\ irmf # NoModel
    /\ geom' = [op |-> "counts", nx |-> NumXSlices, ny |-> NumYSlices, nz |-> NumZSlices]
    /\ UNCHANGED <<irmf, deltaX, deltaY, deltaZ, renderer, retired, pc, sw, calls, bs, b, seen,
                   files, ret>>

\* The locals of Render{X,Y,Z}Slices on an axis and the depths of its loop,
\* in both orders.
MeasureSweep(axis) ==
    /\ pc = "idle"
    /\ irmf # NoModel
    /\ geom' = [op |-> "sweep", axis |-> axis,
                numSlices |-> SweepNumSlices(axis),
                voxelRadius |-> VoxelRadius(axis),
                depths |-> [o \in Orders |->
                              SweepDepths(axis, o, SweepNumSlices(axis), 0)]]
    /\ UNCHANGED <<irmf, deltaX, deltaY, deltaZ, renderer, retired, pc, sw, calls, bs, b, seen,
                   files, ret>>

\* No backend is held, or the held backend has acquired nothing yet.
Unprepared == IF renderer = NoRenderer THEN TRUE ELSE renderer.res = "none"

\* A session of SpecGeom loads one model and then either asks for slice
\* counts and depths or has one frame prepared, the backend accepting it.
NextGeom ==
    \/ \E src \in GeomModels : irmf = NoModel /\ NewModel(src)
    \/ Unprepared /\ MeasureCounts
    \/ \E axis \in Axes : Unprepared /\ MeasureSweep(axis)
    \/ \E axis \in Axes :
          geom = NoGeom /\ Unprepared /\ PrepareRenderAxis(axis, "ok")

SpecGeom == InitGeom /\ [][NextGeom]_vars

\* ------------------------------------------- slicers of any resolution

InitConfig == InitWith(ConfigResolutions)

\* A session of a slicer created with resolutions of either sign: one model,
\* its slice counts, frames and sweeps of the first material.
NextConfig ==
    \/ \E src \in Models : irmf = NoModel /\ NewModel(src)
    \/ MeasureCounts
    \/ \E axis \in Axes, outcome \in PrepareOutcomes : PrepareRenderAxis(axis, outcome)
    \/ \E axis \in Axes, order \in Orders : RenderSlices(axis, 1, order)
    \/ \E ok \in BOOLEAN : \E img \in RenderedImages :
          RenderSlice(ok, img)
    \/ \E ok \in BOOLEAN : ProcessSlice(ok)

SpecConfig == InitConfig /\ [][NextConfig]_vars

\* C12 as stated: a slicer created with a resolution that is not positive on
\* some axis returns no slice count, prepares no frame, renders no slice,
\* and every PrepareRender and sweep it is asked for returns an error.
C12_NonPositiveResolution ==
    (deltaX <= 0 \/ deltaY <= 0 \/ deltaZ <= 0)
      => /\ geom.op # "counts"
         /\ ret.op = "PrepareRender" => ret.err
         /\ renderer # NoRenderer => renderer.axis = "none"
         /\ \A i \in 1..Len(calls) : calls[i].op # "Render"
         /\ ret.op = "RenderSlices" => ret.err

\* ---------------------------------------------------------------- backends

\* The backend kind a shading-language tag selects.
RequiredKind(language) == IF language = "wgsl" THEN "WebGPU" ELSE "OpenGL"

\* The backends of the session, held or dropped, that hold live resources
\* of the window system or the GPU.
LiveBackends(held, dropped) ==
    { x \in dropped : x.res = "live" }
        \cup (IF held # NoRenderer /\ held.res = "live" THEN {Dropped(held)} ELSE {})

\* C11: a NewModel that loads a model whose language requires the kind of
\* the held backend keeps that backend (same instance, same state) and drops
\* nothing; one that requires another kind holds afterwards a new instance
\* of the required kind that has acquired nothing, and the backend held
\* before was closed and then dropped; after every step at most one backend
\* of the session, held or dropped, is live.
C11_BackendReuse ==
    [][ /\ Cardinality(LiveBackends(renderer', retired')) <= 1
        /\ (ret'.op = "NewModel" /\ ~ret'.err)
              => IF renderer.kind = RequiredKind(irmf'.Language)
                 THEN /\ renderer' = renderer
                      /\ retired' = retired
                 ELSE /\ renderer'.kind = RequiredKind(irmf'.Language)
                      /\ renderer'.res = "none"
                      /\ renderer # NoRenderer => renderer'.id # renderer.id
                      /\ \A x \in retired : x.id # renderer'.id
                      /\ IF renderer = NoRenderer
                         THEN retired' = retired
                         ELSE \E res \in {"none", "released"} :
                                 retired' = retired \cup
                                    {[id |-> renderer.id, kind |-> renderer.kind, res |-> res]}
      ]_vars

\* Two backends that were live have been replaced, a WebGPU one among them,
\* and the third is live.
C11_Witness ==
    /\ Cardinality(retired) = 2
    /\ \E x \in retired : x.kind = "WebGPU" /\ x.res = "released"
    /\ renderer # NoRenderer
    /\ renderer.res = "live"
    /\ renderer.id = 3

\* C23: a NewModel whose load fails returns the error and leaves the slicer
\* as it was: the model loaded before, the backend held with all of its
\* state (what it has acquired, its frame and pipeline), the backends
\* dropped and the resolutions are those of before the call.
C23_FailedLoadFrame ==
    [][ (ret'.op = "NewModel" /\ ret'.err)
          => /\ irmf' = irmf
             /\ renderer' = renderer
             /\ retired' = retired
             /\ <<deltaX', deltaY', deltaZ'>> = <<deltaX, deltaY, deltaZ>>
      ]_vars

\* A load has failed on a slicer that holds a model and a live backend
\* prepared for an axis, a backend having been replaced before.
C23_Witness ==
    /\ ret = [op |-> "NewModel", err |-> TRUE]
    /\ irmf # NoModel
    /\ renderer # NoRenderer
    /\ renderer.res = "live"
    /\ renderer.axis # "none"
    /\ retired # {}

\* C17: once a NewModel has succeeded the slicer holds a backend, and its
\* kind is the one the language of the loaded model selects: OpenGL for
\* glsl and for the empty tag, WebGPU for wgsl.
C17_BackendKind ==
    irmf # NoModel
      => /\ renderer # NoRenderer
         /\ irmf.Language \in {"glsl", ""} => renderer.kind = "OpenGL"
         /\ irmf.Language = "wgsl" => renderer.kind = "WebGPU"
         /\ renderer.kind \in {"OpenGL", "WebGPU"}

\* A model with the empty tag was loaded into a slicer that held a WebGPU
\* backend.
C17_Witness ==
    /\ ret = [op |-> "NewModel", err |-> FALSE]
    /\ irmf.Language = ""
    /\ \E x \in retired : x.kind = "WebGPU"
    /\ renderer.kind = "OpenGL"


\* C18 as stated: a pipeline prepared for a model of 1..4 materials calls the
\* 4-channel evaluator, of 5..9 the 9-channel one, of 10..16 the 16-channel
\* one; no pipeline is built with one of the three evaluators for a model of
\* more than 16 materials, and a PrepareRender for such a model returns an
\* error.
C18_ChannelSelection ==
    /\ (renderer # NoRenderer /\ renderer.irmf # NoModel)
          => LET n == Len(renderer.irmf.Materials)
             IN  /\ n \in 1..4 => renderer.footer = 4
                 /\ n \in 5..9 => renderer.footer = 9
                 /\ n \in 10..16 => renderer.footer = 16
                 /\ n > 16 => renderer.footer \notin {4, 9, 16}
    /\ (ret.op = "PrepareRender" /\ NumMaterials > 16) => ret.err

\* ------------------------------------------------- binvox.Slice, step by step

\* C13: a PrepareRenderZ or RenderZSlices of binvox.Slice that fails for
\* material m is the last thing that Slice does: Slice has returned an
\* error, no artifact is written for m or a later material, and nothing is
\* prepared, swept or written for a later material; every artifact written
\* holds all NumZSlices slices of a sweep of its material that returned nil
\* before the artifact was written.
C13_SliceAbort ==
    LET ev == bs.events
    IN  /\ \A i \in 1..Len(ev) :
              (ev[i].op \in {"PrepareRenderZ", "RenderZSlices"} /\ ev[i].err)
                => /\ i = Len(ev)
                   /\ pc = "idle"
                   /\ ret = [op |-> "Slice", err |-> TRUE]
                   /\ \A f \in files : f.materialNum < ev[i].materialNum
                   /\ \A j \in 1..Len(ev) : ev[j].materialNum <= ev[i].materialNum
        /\ \A f \in files :
              /\ Len(f.rasters) = NumZSlices
              /\ \E i \in 1..Len(ev) :
                    /\ ev[i] = SliceEvent("RenderZSlices", f.materialNum, FALSE,
                                          FALSE, FALSE, NumZSlices)
                    /\ \A j \in 1..Len(ev) :
                          (ev[j].op = "Write" /\ ev[j].materialNum = f.materialNum) => j > i

\* The sweep of the second material failed after its first slice, the
\* artifact of the first material being written.
C13_Witness ==
    /\ ret = [op |-> "Slice", err |-> TRUE]
    /\ Cardinality(files) = 1
    /\ Len(bs.events) > 0
    /\ bs.events[Len(bs.events)].op = "RenderZSlices"
    /\ bs.events[Len(bs.events)].materialNum = 2
    /\ bs.events[Len(bs.events)].slices >= 1

\* The calls of PrepareRenderZ in a record of binvox.Slice that reached the
\* backend's Init, and those that reached its Prepare.
InitEvents(ev) == { i \in 1..Len(ev) : ev[i].init }

PrepareEvents(ev) == { i \in 1..Len(ev) : ev[i].prepare }

\* C15 as stated: while binvox.Slice processes a model the backend's Init
\* and Prepare are invoked at most once, and exactly once when Slice has
\* returned nil for a model with materials.
C15_Original ==
    /\ Cardinality(InitEvents(bs.events)) <= 1
    /\ Cardinality(PrepareEvents(bs.events)) <= 1
    /\ (ret = [op |-> "Slice", err |-> FALSE] /\ NumMaterials >= 1)
         => /\ Cardinality(InitEvents(bs.events)) = 1
            /\ Cardinality(PrepareEvents(bs.events)) = 1

\* C15 amended: binvox.Slice invokes the backend's Init once per material it
\* processes and Prepare once per material whose Init succeeded, each right
\* before that material's sweep; a Slice that returned nil has invoked each
\* NumMaterials times; no step of a sweep invokes them (the backend and the
\* record of Slice are the same before and after every step of a sweep).
C15_FramePerMaterial ==
    [][ /\ pc \in {"render", "process"}
             => /\ renderer' = renderer
                /\ bs'.events = bs.events
        /\ LET ev == bs'.events
           IN  /\ \A i \in 1..Len(ev) :
                     /\ ev[i].op = "PrepareRenderZ"
                          => /\ ev[i].init
                             /\ ~ev[i].err => ev[i].prepare
                             /\ \A j \in 1..Len(ev) :
                                   (ev[j].op = "PrepareRenderZ"
                                      /\ ev[j].materialNum = ev[i].materialNum) => j = i
                     /\ ev[i].op = "RenderZSlices"
                          => /\ i > 1
                             /\ ev[i - 1] = SliceEvent("PrepareRenderZ", ev[i].materialNum,
                                                       FALSE, TRUE, TRUE, 0)
               /\ ret' = [op |-> "Slice", err |-> FALSE]
                     => /\ Cardinality(InitEvents(ev)) = NumMaterials
                        /\ Cardinality(PrepareEvents(ev)) = NumMaterials
      ]_vars

\* binvox.Slice has returned nil for a model of two materials and two
\* layers.
C15_Witness ==
    /\ ret = [op |-> "Slice", err |-> FALSE]
    /\ NumMaterials = 2
    /\ NumZSlices = 2
    /\ Cardinality(InitEvents(bs.events)) = 2
    /\ Cardinality(PrepareEvents(bs.events)) = 2

\* C14 as stated: when a sweep has issued a backend Render call, the held
\* backend is live and its pipeline was last prepared, with success, for the
\* axis of the sweep and for the slicer's current model.
C14_PreparedBeforeRender ==
    (\E i \in 1..Len(calls) : calls[i].op = "Render")
      => /\ renderer.res = "live"
         /\ renderer.axis = sw.axis
         /\ renderer.irmf = irmf

\* ---------------------------------------------------------------- sweeps

\* The entries of the call log of the current sweep that are consumer calls.
ProcessCalls == { i \in 1..Len(calls) : calls[i].op = "Process" }

RenderCalls == { i \in 1..Len(calls) : calls[i].op = "Render" }

\* C1: a sweep that has returned and met no failing backend or consumer call
\* returned nil after exactly one consumer call per slice index
\* 0..numSlices-1, in increasing index order, each directly preceded by one
\* backend Render with the same depth and the requested material.
C1_CompleteSweep ==
    (sw.err # "none" /\ \A i \in 1..Len(calls) : calls[i].ok)
        => /\ sw.err = "nil"
           /\ Len(calls) = 2 * sw.numSlices
           /\ \A n \in 0..(sw.numSlices - 1) :
                 /\ calls[2 * n + 1].op = "Render"
                 /\ calls[2 * n + 1].materialNum = sw.materialNum
                 /\ calls[2 * n + 2].op = "Process"
                 /\ calls[2 * n + 2].n = n
                 /\ calls[2 * n + 2].depth = calls[2 * n + 1].depth
           /\ (sw.caller = "client" => ret = [op |-> "RenderSlices", err |-> FALSE])

\* A client's MaxToMin sweep of three slices has returned nil.
C1_Witness ==
    /\ sw.err = "nil"
    /\ sw.caller = "client"
    /\ sw.order = MaxToMin
    /\ sw.numSlices = 3
    /\ Len(calls) = 6

\* C2: the depth handed to the backend and to the consumer at slice n is
\* boxMin + delta/2 + n*delta (MinToMax) or boxMin + delta/2 +
\* (numSlices-n-1)*delta (MaxToMin), and voxelRadius is delta/2 (stated on
\* the doubled values); with delta = 1 mm and boxMin = 0 the first MinToMax
\* depth is 0.5 mm and the last is numSlices - 0.5 mm (1 and 2*numSlices - 1
\* half millimetres).
C2_Depths ==
    \A i \in 1..Len(calls) :
        LET n == (i - 1) \div 2
            d == Delta(sw.axis)
            boxMin == irmf.Min[AxisIndex(sw.axis)]
            k == IF sw.order = MinToMax THEN n ELSE sw.numSlices - n - 1
        IN  /\ 2 * calls[i].depth = 2 * boxMin + d + 2 * k * d
            /\ calls[i].op = "Process" => 2 * calls[i].voxelRadius = d
            /\ (d = 2 /\ boxMin = 0 /\ sw.order = MinToMax)
                 => /\ n = 0 => calls[i].depth = 1
                    /\ n = sw.numSlices - 1 => calls[i].depth = 2 * sw.numSlices - 1

\* The last slice of a MaxToMin sweep of two slices at a 2 mm resolution
\* from a box whose lower corner is off the origin has reached the consumer.
C2_Witness ==
    /\ Len(calls) = 4
    /\ calls[4].op = "Process"
    /\ sw.order = MaxToMin
    /\ Delta(sw.axis) = 4
    /\ irmf.Min[AxisIndex(sw.axis)] < 0

\* C4: a backend Render that fails on slice k ends the sweep with an error:
\* it is the last call of the sweep, the consumer has been called for
\* exactly the indices 0..k-1, and the sweep has returned the error.
C4_RenderFailure ==
    \A i \in RenderCalls :
        ~calls[i].ok
          => LET k == (i - 1) \div 2
             IN  /\ i = Len(calls)
                 /\ i = 2 * k + 1
                 /\ sw.err = "render"
                 /\ pc \notin {"render", "process"}
                 /\ { calls[j].n : j \in ProcessCalls } = 0..(k - 1)
                 /\ Cardinality(ProcessCalls) = k
                 /\ sw.caller = "client" => ret = [op |-> "RenderSlices", err |-> TRUE]

\* The backend failed on slice 2 of a client's sweep of three slices.
C4_Witness ==
    /\ Len(calls) = 5
    /\ ~calls[5].ok
    /\ calls[5].op = "Render"
    /\ sw.numSlices = 3
    /\ sw.caller = "client"

\* C5: a consumer error on slice k ends the sweep with an error at once: it
\* is the last call of the sweep, each index 0..k was rendered once and
\* handed to the consumer once (k itself neither retried nor skipped), and
\* the sweep has returned the error.
C5_ConsumerFailure ==
    \A i \in ProcessCalls :
        ~calls[i].ok
          => LET k == calls[i].n
             IN  /\ i = Len(calls)
                 /\ i = 2 * k + 2
                 /\ sw.err = "process"
                 /\ pc \notin {"render", "process"}
                 /\ \A j \in 0..k : /\ calls[2 * j + 1].op = "Render"
                                    /\ calls[2 * j + 2].op = "Process"
                                    /\ calls[2 * j + 2].n = j
                 /\ ret = [op |-> "RenderSlices", err |-> TRUE]

\* The consumer failed on slice 1 of a sweep of three slices.
C5_Witness ==
    /\ Len(calls) = 4
    /\ calls[4].op = "Process"
    /\ ~calls[4].ok
    /\ sw.numSlices = 3

\* The slice count the Slicer advertises for an axis.
NumSlicesOf(axis) ==
    IF axis = "X" THEN NumXSlices ELSE IF axis = "Y" THEN NumYSlices ELSE NumZSlices

\* C19: a sweep along an axis that has returned nil made as many consumer
\* calls as NumXSlices / NumYSlices / NumZSlices returns for that axis, the
\* model and the resolution being the same.
C19_SweepLength ==
    sw.err = "nil" => Cardinality(ProcessCalls) = NumSlicesOf(sw.axis)

\* -------------------------------------------------------------- geometry

\* C3: on an axis, the depths of a complete MaxToMin sweep are those of a
\* complete MinToMax sweep in reverse order: both have the same length and
\* the MaxToMin depth of slice n is the MinToMax depth of slice
\* numSlices-1-n.
C3_ReverseOrder ==
    geom.op = "sweep"
      => LET up == geom.depths[MinToMax]
             down == geom.depths[MaxToMin]
         IN  /\ Len(up) = geom.numSlices
             /\ Len(down) = Len(up)
             /\ \A n \in 0..(Len(up) - 1) : down[n + 1] = up[(Len(up) - 1 - n) + 1]

\* The depths of a sweep of at least three slices have been computed.
C3_Witness ==
    /\ geom.op = "sweep"
    /\ geom.numSlices >= 3
    /\ geom.depths[MinToMax][1] # geom.depths[MaxToMin][1]

\* n is extent/delta rounded to the nearest integer, halves upward:
\* n <= extent/delta + 1/2 < n + 1.
IsRounded(n, extent, delta) ==
    /\ 2 * n * delta <= 2 * extent + delta
    /\ 2 * extent + delta < 2 * (n + 1) * delta

\* C6: NumZSlices is round(extentZ/deltaZ) unadjusted; NumXSlices is
\* round(extentX/deltaX) plus one when that is odd; NumYSlices is
\* round(extentY/deltaY) plus one exactly when round(extentX/deltaX) is odd,
\* whatever the parity of the Y count.
C6_ParityRule ==
    geom.op = "counts"
      => \E rx \in 0..(2 * MaxExtent), ry \in 0..(2 * MaxExtent), rz \in 0..(2 * MaxExtent) :
            /\ IsRounded(rx, Extent("X"), deltaX)
            /\ IsRounded(ry, Extent("Y"), deltaY)
            /\ IsRounded(rz, Extent("Z"), deltaZ)
            /\ geom.nz = rz
            /\ geom.nx = (IF rx % 2 = 1 THEN rx + 1 ELSE rx)
            /\ geom.ny = (IF rx % 2 = 1 THEN ry + 1 ELSE ry)

\* The counts of a model whose rounded X count is even and whose rounded Y
\* and Z counts are odd have been computed: Y and Z stay odd.
C6_Witness ==
    /\ geom.op = "counts"
    /\ geom.nx % 2 = 0
    /\ IsRounded(geom.nx, Extent("X"), deltaX)
    /\ geom.ny % 2 = 1
    /\ geom.nz % 2 = 1

\* C16: the frame a successful PrepareRender{X,Y,Z} handed to the backend's
\* Init has an even width: with (w, h) the size after the aspect-ratio pass,
\* w being the in-plane width extent over its resolution rounded half up,
\* the backend was given (w + 1, h + 1) when w is odd and (w, h) when w is
\* even, whatever the parity of h.
C16_EvenWidth ==
    (ret = [op |-> "PrepareRender", err |-> FALSE])
      => LET w == FrameSize(renderer.axis)[1]
             h == FrameSize(renderer.axis)[2]
             wa == PlaneAxes(renderer.axis)[1]
         IN  /\ IsRounded(w, Extent(wa), Delta(wa))
             /\ renderer.width % 2 = 0
             /\ w % 2 = 1 => (renderer.width = w + 1 /\ renderer.height = h + 1)
             /\ w % 2 = 0 => (renderer.width = w /\ renderer.height = h)

\* A frame of even width and odd height, and whose height the aspect-ratio
\* pass has grown, was handed to the backend.
C16_Witness ==
    /\ ret = [op |-> "PrepareRender", err |-> FALSE]
    /\ renderer.width % 2 = 0
    /\ renderer.width = FrameSize(renderer.axis)[1]
    /\ renderer.height % 2 = 1
    /\ renderer.height # IntHalfUp(Extent(PlaneAxes(renderer.axis)[2]),
                                   Delta(PlaneAxes(renderer.axis)[2]))

\* ------------------------------------------------------------------ binvox

\* The model is the box (0,0,0)..(3,3,3) mm sliced at 1 mm on every axis.
Cube3Scenario ==
    /\ irmf # NoModel
    /\ irmf.Min = <<0, 0, 0>>
    /\ irmf.Max = <<6, 6, 6>>
    /\ deltaX = 2
    /\ deltaY = 2
    /\ deltaZ = 2

\* Every raster of the artifact f was fully white.
AllWhite(f) ==
    /\ Len(f.rasters) > 0
    /\ \A i \in 1..Len(f.rasters) : f.rasters[i].red = Pixels(f.rasters[i].w, f.rasters[i].h)

\* C7 as stated: in the cube scenario the slice count is 3 on X, Y and Z and
\* a fully white material gives NX = NY = NZ = 3 with 27 occupied cells.
C7_Original ==
    (Cube3Scenario /\ \E f \in files : AllWhite(f))
      => /\ NumXSlices = 3
         /\ NumYSlices = 3
         /\ NumZSlices = 3
         /\ \A f \in files :
               AllWhite(f) => /\ f.NX = 3
                              /\ f.NY = 3
                              /\ f.NZ = 3
                              /\ Cardinality(f.WhiteVoxels) = 27

\* C7 amended: in the cube scenario every sweep has 3 slices and NumZSlices
\* is 3, but NumXSlices and NumYSlices are 4 (the odd X count is
\* incremented), and a fully white material gives NX = NY = 4, NZ = 3 with
\* 48 occupied cells.
C7_Cube3 ==
    Cube3Scenario
      => /\ \A axis \in Axes : SweepNumSlices(axis) = 3
         /\ NumXSlices = 4
         /\ NumYSlices = 4
         /\ NumZSlices = 3
         /\ \A f \in files :
               AllWhite(f) => /\ f.NX = 4
                              /\ f.NY = 4
                              /\ f.NZ = 3
                              /\ Cardinality(f.WhiteVoxels) = 48

\* The artifact of the fully white cube has been written.
C7_Witness ==
    /\ Cube3Scenario
    /\ \E f \in files : AllWhite(f) /\ Len(f.rasters) = 3

\* C8: an artifact whose sweep delivered NumZSlices rasters of NumXSlices by
\* NumYSlices pixels, all with a non-zero red channel, has the dimensions
\* (NumXSlices, NumYSlices, NumZSlices) and holds exactly the cells
\* (u, v, sliceIndex) of every pixel of every slice, nx*ny*nz of them.
C8_SolidVolume ==
    \A f \in files :
        LET nx == NumXSlices
            ny == NumYSlices
            nz == NumZSlices
        IN  ( /\ Len(f.rasters) = nz
              /\ \A i \in 1..Len(f.rasters) :
                    /\ f.rasters[i].w = nx
                    /\ f.rasters[i].h = ny
                    /\ f.rasters[i].red = Pixels(nx, ny) )
              => /\ f.NX = nx
                 /\ f.NY = ny
                 /\ f.NZ = nz
                 /\ f.WhiteVoxels = (0..(nx - 1)) \X (0..(ny - 1)) \X (0..(nz - 1))
                 /\ Cardinality(f.WhiteVoxels) = nx * ny * nz

\* A solid artifact of two layers with unequal width and height has been
\* written.
C8_Witness ==
    \E f \in files :
        /\ AllWhite(f)
        /\ Len(f.rasters) = 2
        /\ NumZSlices = 2
        /\ f.NX = NumXSlices
        /\ f.NY = NumYSlices
        /\ f.NX # f.NY
        /\ f.rasters[1].w = f.NX
        /\ f.rasters[1].h = f.NY

DigitChars == <<"0", "1", "2", "3", "4", "5", "6", "7", "8", "9">>

\* name is base, "-mat", the two decimal digits of m, "-", the material name
\* with each space turned into a hyphen and every other character kept,
\* ".binvox".
IsArtifactName(name, base, m, material) ==
    LET lb == Len(base)
        lm == Len(material)
        at == lb + 7
    IN  /\ Len(name) = lb + 4 + 2 + 1 + lm + 7
        /\ SubSeq(name, 1, lb) = base
        /\ SubSeq(name, lb + 1, lb + 4) = <<"-", "m", "a", "t">>
        /\ \E d1 \in 0..9, d2 \in 0..9 :
              /\ 10 * d1 + d2 = m
              /\ name[lb + 5] = DigitChars[d1 + 1]
              /\ name[lb + 6] = DigitChars[d2 + 1]
        /\ name[lb + 7] = "-"
        /\ \A i \in 1..lm :
              name[at + i] = (IF material[i] = " " THEN "-" ELSE material[i])
        /\ SubSeq(name, at + lm + 1, at + lm + 7) = <<".", "b", "i", "n", "v", "o", "x">>

\* C9: every artifact binvox.Slice writes for material m carries the name
\* base-matNN-name.binvox, and a Slice that returns nil has written one
\* artifact for each material 1..NumMaterials.
C9_ArtifactNames ==
    /\ \A f \in files :
          /\ f.materialNum \in 1..NumMaterials
          /\ IsArtifactName(f.name, bs.base, f.materialNum, irmf.Materials[f.materialNum])
    /\ ret = [op |-> "Slice", err |-> FALSE]
         => /\ { f.materialNum : f \in files } = 1..NumMaterials
            /\ Cardinality(files) = NumMaterials

\* binvox.Slice returned nil for a model of two materials, the first with
\* two spaces in its name.
C9_Witness ==
    /\ ret = [op |-> "Slice", err |-> FALSE]
    /\ NumMaterials = 2
    /\ irmf.Materials[1] = NameTwoSpaces
    /\ Cardinality(files) = 2

\* C10: client.ProcessZSlice for slice k keeps every recorded cell, adds only
\* cells of layer k, leaves the other layers as they were, adds nothing for
\* a raster without a pixel of non-zero red, and returns no error.
C10_LayerAdditive ==
    [][ (pc = "process" /\ sw.caller = "binvox")
          => /\ b.WhiteVoxels \subseteq b'.WhiteVoxels
             /\ \A c \in b'.WhiteVoxels \ b.WhiteVoxels : c[3] = sw.n
             /\ { c \in b'.WhiteVoxels : c[3] # sw.n } = { c \in b.WhiteVoxels : c[3] # sw.n }
             /\ sw.img.red = {} => b'.WhiteVoxels = b.WhiteVoxels
             /\ sw'.err # "process" ]_vars

\* ProcessZSlice has taken a raster without red pixels after a layer that
\* recorded cells.
C10_Witness ==
    /\ sw.caller = "binvox"
    /\ Len(seen) >= 2
    /\ seen[Len(seen)].red = {}
    /\ seen[Len(seen)].w > 0
    /\ b.WhiteVoxels # {}

\* C20: the frame a successful PrepareRenderZ hands to the backend is
\* NumXSlices wide and NumYSlices high, and so every artifact of binvox.Slice
\* has the NX and NY its BinVOX was created with.
C20_RasterEqualsCounts ==
    /\ (ret = [op |-> "PrepareRender", err |-> FALSE] /\ renderer.axis = "Z")
          => (renderer.width = NumXSlices /\ renderer.height = NumYSlices)
    /\ \A f \in files : f.NX = NumXSlices /\ f.NY = NumYSlices

\* The cells of a voxel grid lie within its dimensions.
InGrid(g) ==
    \A c \in g.WhiteVoxels :
        /\ 0 <= c[1] /\ c[1] < g.NX
        /\ 0 <= c[2] /\ c[2] < g.NY
        /\ 0 <= c[3] /\ c[3] < g.NZ

\* C21: after any number of ProcessZSlice calls of binvox.Slice every
\* occupied cell (u, v, w) of the BinVOX has 0 <= u < NX, 0 <= v < NY and
\* 0 <= w < NZ, and so has every cell of every artifact written, for the NX,
\* NY, NZ written with it.
C21_VoxelBounds ==
    /\ InGrid(b)
    /\ \A f \in files : InGrid(f)

\* An artifact of at least two layers is written whose far corner cell is
\* occupied and whose NY is not the NumYSlices its BinVOX was created with.
C21_Witness ==
    \E f \in files :
        /\ f.NZ >= 2
        /\ <<f.NX - 1, f.NY - 1, f.NZ - 1>> \in f.WhiteVoxels
        /\ f.NY # NumYSlices

\* ------------------------------------------------------- closed backends

\* C22: a backend that was closed and whose released resources have not been
\* re-created is not used: when the held backend is a released one, the last
\* Slicer operation was not a PrepareRender (which calls its Init and, Init
\* returning nil, its Prepare) and no Render of the current sweep was made
\* on it.
C22_ClosedBackendUnused ==
    (renderer # NoRenderer /\ renderer.res = "released")
        => (ret.op # "PrepareRender" /\ RenderCalls = {})

\* ------------------------------------------------- lengths as float32 values

\* The Slicer computes with float32 (Slicer.deltaX, IRMF.Min, IRMF.Max).  A
\* float32 value is [n, e], standing for n * 2^e, with n = 0 and e = 0 or
\* 2^23 <= |n| < 2^24; every operation rounds its exact result to the nearest
\* such value, ties to the even n.  (No value of the sessions of SpecFloat is
\* subnormal, infinite or NaN.)

\* Bits of the significand of a float32.
F32Bits == 24

\* Largest box extent on an axis in SpecFloat, in twentieths of a millimetre.
MaxExtent20 == 10

Sign(n) == IF n < 0 THEN -1 ELSE 1

\* The number of bits of a natural number.
RECURSIVE BitLen(_)
BitLen(n) == IF n = 0 THEN 0 ELSE 1 + BitLen(n \div 2)

\* n shifted right by k bits, the last bit kept set if a set bit was lost.
ShrSticky(n, k) ==
    IF k >= 31 THEN (IF n # 0 THEN 1 ELSE 0)
    ELSE LET q == n \div (2 ^ k)
         IN  IF n % (2 ^ k) # 0 /\ q % 2 = 0 THEN q + 1 ELSE q

\* n shifted right by k > 0 bits, rounded to nearest, ties to even.
RoundEven(n, k) ==
    LET q == n \div (2 ^ k)
        r == n % (2 ^ k)
        half == 2 ^ (k - 1)
    IN  IF r > half \/ (r = half /\ q % 2 = 1) THEN q + 1 ELSE q

F32Zero == [n |-> 0, e |-> 0]

\* The float32 nearest to s * n * 2^e, for a sign s and a natural n.
F32Round(s, n, e) ==
    LET len == BitLen(n)
        k == len - F32Bits
        q == RoundEven(n, k)
    IN  IF n = 0 THEN F32Zero
        ELSE IF k <= 0 THEN [n |-> s * n * (2 ^ (-k)), e |-> e + k]
        ELSE IF q = 2 ^ F32Bits THEN [n |-> s * (2 ^ (F32Bits - 1)), e |-> e + k + 1]
        ELSE [n |-> s * q, e |-> e + k]

\* The float32 nearest to an exact n * 2^e.
F32Rounded(x) == F32Round(Sign(x.n), Abs(x.n), x.e)

\* float32(i) of an int
F32(i) == F32Round(Sign(i), Abs(i), 0)

F32Neg(x) == [x EXCEPT !.n = -x.n]

\* The float32 nearest to the exact sum of x.n * 2^x.e and y.n * 2^y.e, for
\* |x.n|, |y.n| < 2^27: both are aligned 28 bits below the higher leading
\* bit, the one that does not fit losing its low bits to a sticky bit.
F32Sum(x, y) ==
    LET top == IF x.e + BitLen(Abs(x.n)) > y.e + BitLen(Abs(y.n))
               THEN x.e + BitLen(Abs(x.n)) ELSE y.e + BitLen(Abs(y.n))
        e0 == top - 28
        Aligned(z) == IF z.e >= e0 THEN z.n * (2 ^ (z.e - e0))
                      ELSE Sign(z.n) * ShrSticky(Abs(z.n), e0 - z.e)
        total == Aligned(x) + Aligned(y)
    IN  IF x.n = 0 THEN F32Rounded(y)
        ELSE IF y.n = 0 THEN F32Rounded(x)
        ELSE F32Round(Sign(total), Abs(total), e0)

\* x + y and x - y of float32 values
F32Add(x, y) == F32Sum(x, y)

F32Sub(x, y) == F32Sum(x, F32Neg(y))

\* x < y of float32 values
F32Less(x, y) == F32Sub(x, y).n < 0

\* The first k bits of r / d, for naturals r < 2 * d, and the remainder.
RECURSIVE LongDiv(_, _, _, _)
LongDiv(r, d, k, q) ==
    IF k = 0 THEN [q |-> q, r |-> r]
    ELSE IF r >= d THEN LongDiv(2 * (r - d), d, k - 1, 2 * q + 1)
    ELSE LongDiv(2 * r, d, k - 1, 2 * q)

\* x / y of float32 values, y # 0
F32Div(x, y) ==
    LET qr == LongDiv(Abs(x.n), Abs(y.n), F32Bits + 3, 0)
        q == IF qr.r # 0 /\ qr.q % 2 = 0 THEN qr.q + 1 ELSE qr.q
    IN  IF x.n = 0 THEN F32Zero
        ELSE F32Round(Sign(x.n) * Sign(y.n), q, x.e - y.e - (F32Bits + 2))

\* 0.5 * x of a float32 value
F32Half(x) == IF x.n = 0 THEN x ELSE [x EXCEPT !.e = x.e - 1]

F32OneHalf == F32Half(F32(1))

\* The exact product i * x of a small natural and a float32 value, not yet
\* rounded.
F32Times(i, x) == [n |-> i * x.n, e |-> x.e]

\* int(x) of a float32 value: truncation toward zero.
F32Int(x) ==
    IF x.e >= 0 THEN x.n * (2 ^ x.e)
    ELSE IF -x.e >= F32Bits THEN 0
    ELSE Sign(x.n) * (Abs(x.n) \div (2 ^ (-x.e)))

\* The float32 a decimal num/den of the model's source is read as.
F32Dec(num, den) == F32Div(F32(num), F32(den))

\* The resolutions handed to irmf.Init in SpecFloat, in microns.
FloatResolutions == {100, 1000}

\* The models of SpecFloat: boxes with the same bounds on every axis, the
\* lower bound -0.7, -0.25, 0 or 0.1 mm and the extent a multiple of 0.05 mm,
\* each bound being the float32 its decimal is read as.
FloatModels ==
    { [Min |-> [i \in 1..3 |-> F32Dec(mn, 20)],
       Max |-> [i \in 1..3 |-> F32Dec(mn + ex, 20)],
       Materials |-> MaterialList(1),
       Language |-> "glsl"] : mn \in {-14, -5, 0, 2}, ex \in 1..MaxExtent20 }

\* irmf.Init(view, umXRes, umYRes, umZRes) with float32 lengths in
\* millimetres: delta = umRes / 1000.0.
InitFloat ==
    /\ \E umXRes \in FloatResolutions, umYRes \in FloatResolutions,
          umZRes \in FloatResolutions :
          /\ deltaX = F32Div(F32(umXRes), F32(1000))
          /\ deltaY = F32Div(F32(umYRes), F32(1000))
          /\ deltaZ = F32Div(F32(umZRes), F32(1000))
    /\ irmf = NoModel
    /\ renderer = NoRenderer
    /\ retired = {}
    /\ pc = "idle"
    /\ sw = NoSweep
    /\ calls = <<>>
    /\ bs = NoSlice
    /\ b = NoBinVOX
    /\ seen = <<>>
    /\ files = {}
    /\ ret = NoRet
    /\ geom = NoGeom

\* (s.irmf.Max[i] - s.irmf.Min[i]) / s.delta of Render{X,Y,Z}Slices
SliceQuotient32(axis) == F32Div(F32Sub(irmf.Max[AxisIndex(axis)], irmf.Min[AxisIndex(axis)]),
                                Delta(axis))

\* numSlices of Render{X,Y,Z}Slices
SweepNumSlices32(axis) == F32Int(F32Add(F32OneHalf, SliceQuotient32(axis)))

\* minVal of Render{X,Y,Z}Slices
MinVal32(axis) == F32Add(irmf.Min[AxisIndex(axis)], F32Half(Delta(axis)))

\* xFunc / yFunc / zFunc: the depth of slice n.  The build may round the
\* product before the sum or fuse the two into one rounding.
DepthFunc32(axis, order, numSlices, n, fused) ==
    LET k == IF order = MinToMax THEN n ELSE numSlices - n - 1
        product == F32Times(k, Delta(axis))
    IN  IF fused THEN F32Add(MinVal32(axis), product)
        ELSE F32Add(MinVal32(axis), F32Rounded(product))

\* The depths a sweep that meets no error computes at slices n, n+1, ...
RECURSIVE SweepDepths32(_, _, _, _, _)
SweepDepths32(axis, order, numSlices, n, fused) ==
    IF n >= numSlices
    THEN <<>>
    ELSE <<DepthFunc32(axis, order, numSlices, n, fused)>>
             \o SweepDepths32(axis, order, numSlices, n + 1, fused)

\* The locals of Render{X,Y,Z}Slices on an axis and the depths of its loop,
\* in both orders, computed in float32.
MeasureSweep32(axis, fused) ==
    /\ pc = "idle"
    /\ irmf # NoModel
    /\ geom' = [op |-> "sweep32", axis |-> axis, fused |-> fused,
                numSlices |-> SweepNumSlices32(axis),
                depths |-> [o \in Orders |->
                              SweepDepths32(axis, o, SweepNumSlices32(axis), 0, fused)]]
    /\ UNCHANGED <<irmf, deltaX, deltaY, deltaZ, renderer, retired, pc, sw, calls, bs, b, seen,
                   files, ret>>

\* A session of SpecFloat loads one model and asks for the depths of sweeps.
NextFloat ==
    \/ \E src \in FloatModels : irmf = NoModel /\ NewModel(src)
    \/ \E axis \in Axes, fused \in BOOLEAN : MeasureSweep32(axis, fused)

SpecFloat == InitFloat /\ [][NextFloat]_vars

\* The quotient extent/delta the sweep computes is a whole number.
WholeQuotient32(axis) == F32(F32Int(SliceQuotient32(axis))) = SliceQuotient32(axis)

\* C24: every depth of a sweep, for every axis, order and slice index, lies
\* in the box on the swept axis, boxMin < depth <= boxMax, and below boxMax
\* when the extent is a whole multiple of the resolution.
C24_DepthWithinBox ==
    geom.op = "sweep32"
      => \A o \in Orders : \A i \in 1..Len(geom.depths[o]) :
            LET depth == geom.depths[o][i]
                boxMin == irmf.Min[AxisIndex(geom.axis)]
                boxMax == irmf.Max[AxisIndex(geom.axis)]
            IN  /\ F32Less(boxMin, depth)
                /\ ~F32Less(boxMax, depth)
                /\ WholeQuotient32(geom.axis) => F32Less(depth, boxMax)

====
